---- MODULE Spec2Model ----
(***************************************************************************)
(* MINERVA dashboard (src/app.py): the risk-scoring function               *)
(* generate_analysis, the shared numpy generator it draws from, and the    *)
(* Streamlit page runs that call it and keep the last report in            *)
(* st.session_state.                                                       *)
(*                                                                         *)
(* Units.  A float probability is the integer number of whole hundredths   *)
(* of a percentage point in it (1996 is a double in [19.96, 19.97)); the   *)
(* reported, one-decimal probability is an integer number of tenths (20.0  *)
(* is 200).  A unit draw of the generator, a double in [0, 1), is an       *)
(* integer u: u in 0..DrawRes-1 stands for u / DrawRes, and u = DrawRes    *)
(* for the largest double the generator returns, 1 - 2^-53.  A Python str  *)
(* is a sequence of one-character strings.                                 *)
(***************************************************************************)
EXTENDS Integers, Sequences, FiniteSets, TLC

\* ------------------------------------------------------------------ bounds
\* A unit draw of the generator takes DrawRes values.
DrawRes == 1000
\* Draws a generator may have produced since it was (re)seeded.
MaxPos == 18
\* Days the clock may advance past the first day.
MaxDay == 1
\* Per-process string-hash keys (PYTHONHASHSEED) of the page specification.
MaxSalt == 1
\* Per-process string-hash keys of the single-call specification.
MaxScoreSalt == 40

VARIABLES
    audio_file,        \* sidebar: name of the uploaded file, or None
    research_text,     \* sidebar: content of the transcript text area
    demo_mode,         \* sidebar: "Enable Demo Mode" checkbox
    analyze,           \* button clicked in the last page run: none, voice, text
    analysis_results,  \* st.session_state.analysis_results
    banner,            \* "Current assessment" banner of the last run ("" = not shown)
    biomarkers,        \* the six biomarker metrics the last run rendered
    rng,               \* state of the shared numpy generator
    today,             \* the clock when last read: days since the first day
    hashSalt,          \* the per-process key of hash(str)
    probability,       \* generate_analysis's local `probability` after the clamp
    firstSeen          \* history: per seeded input, what its first report held

vars == <<audio_file, research_text, demo_mode, analyze, analysis_results, banner,
          biomarkers, rng, today, hashSalt, probability, firstSeen>>

\* ------------------------------------------------------------ Python values
\* None where a str is expected (audio_path, text).
None == <<"None">>
\* None where a dict is expected (analysis_results).
NoReport == [none |-> TRUE]
\* The local `probability` before any call assigned it.
Unset == 0 - 1

FileA == <<"a", ".", "w", "a", "v">>
TextHi == <<"h", "i">>
AudioFiles == {None, FileA}
Texts == {<<>>, TextHi}

\* str(x): None prints as the four characters "None".
Str(x) == IF x = None THEN <<"N", "o", "n", "e">> ELSE x

Ord(c) ==
    CASE c = "N" -> 78  [] c = "o" -> 111 [] c = "n" -> 110 [] c = "e" -> 101
      [] c = "a" -> 97  [] c = "." -> 46  [] c = "w" -> 119 [] c = "v" -> 118
      [] c = "h" -> 104 [] c = "i" -> 105

RECURSIVE HashFold(_, _)
HashFold(h, s) ==
    IF s = <<>> THEN h
    ELSE HashFold((h * 31 + Ord(Head(s))) % 65536, Tail(s))

\* hash(s) of a str: keyed by the process's hash key, a signed integer.
Hash(salt, s) ==
    LET h == HashFold((salt * 40503 + 5381) % 65536, s)
    IN  IF h >= 32768 THEN h - 65536 ELSE h

\* seed = hash(str(audio_path) + str(text)) % 10000
SeedOf(salt, audio_path, text) == Hash(salt, Str(audio_path) \o Str(text)) % 10000

\* ------------------------------------------------------- the numpy generator
\* A generator state is the stream it is on and the number of draws taken
\* from it.  A stream is <<"seed", s>> after np.random.seed(s), or
\* <<"os", c, n, r>> for a generator initialised from OS entropy, named by
\* the first three unit draws it yields.
OsStream(c, n, r) == <<"os", c, n, r>>

\* Variant: the seed is computed but never applied to the generator.
SeedNoReset(g, seed) == g

\* np.random.seed(seed)
Seed(g, seed) == [stream |-> <<"seed", seed>>, pos |-> 0]

\* The largest unit draw: (2^53 - 1) / 2^53.
TopDraw == DrawRes

\* The unit draw at position k of a stream.
StreamAt(stream, k) ==
    IF stream[1] = "seed"
    THEN ((stream[2] + 1) * 7919 + k * (stream[2] * 37 + 389)) % (DrawRes + 1)
    ELSE IF k < 3 THEN stream[2 + k]
    ELSE (stream[2 + (k % 3)] + (k \div 3) * 389) % (DrawRes + 1)

\* The i-th next unit draw of generator g (i = 0 is the next one).
Draw(g, i) == StreamAt(g.stream, g.pos + i)

\* Generator g after n draws.
Advance(g, n) == [stream |-> g.stream, pos |-> g.pos + n]

\* np.random.choice([15, 35, 65, 85], p=[0.3, 0.4, 0.2, 0.1]) on unit draw u
Choice(u) ==
    IF u * 10 < 3 * DrawRes THEN 1500
    ELSE IF u * 10 < 7 * DrawRes THEN 3500
    ELSE IF u * 10 < 9 * DrawRes THEN 6500
    ELSE 8500

\* np.random.uniform(low, high) on unit draw u: low + (high - low) * u,
\* which stays below high
Uniform(low, high, u) ==
    IF u = TopDraw THEN high - 1 ELSE low + ((high - low) * u) \div DrawRes

\* np.random.randint(low, high) on unit draw u: high is exclusive
RandInt(low, high, u) ==
    IF u = TopDraw THEN high - 1 ELSE low + ((high - low) * u) \div DrawRes

\* ------------------------------------------------------------------ helpers
Min(a, b) == IF a < b THEN a ELSE b
Max(a, b) == IF a > b THEN a ELSE b

\* Variant: the bounds taken on the 0..1 scale of the biomarker clamp.
ClampFraction(p) == Max(5, Min(95, p))

\* max(5, min(95, probability))
Clamp(p) == Max(500, Min(9500, p))

\* round(probability, 1), hundredths to tenths.  Every double of
\* [x.x5, x.x6) rounds up; round() sends only an exact binary tie (x.25)
\* to the even neighbour, and that is a single point of its hundredth.
Round1(p) == IF p % 10 < 5 THEN p \div 10 ELSE p \div 10 + 1

DigitChar(d) == <<"0", "1", "2", "3", "4", "5", "6", "7", "8", "9">>[d + 1]

RECURSIVE Dec(_)
\* str(n) of a non-negative int
Dec(n) == IF n < 10 THEN <<DigitChar(n)>> ELSE Dec(n \div 10) \o <<DigitChar(n % 10)>>

RECURSIVE Pad(_, _)
\* zero-padding to a width, as %Y, %m and %d do
Pad(s, width) == IF Len(s) >= width THEN s ELSE Pad(<<"0">> \o s, width)

\* The calendar date of a clock value.
DateOf(day) ==
    IF day = 0 THEN [y |-> 2026, m |-> 10, d |-> 31]
    ELSE [y |-> 2026, m |-> 11, d |-> day]

\* datetime.strftime('%Y%m%d')
Strftime(day) ==
    LET t == DateOf(day)
    IN  Pad(Dec(t.y), 4) \o Pad(Dec(t.m), 2) \o Pad(Dec(t.d), 2)

\* -------------------------------------------------------- generate_analysis
\* Variant: `and` in place of `or`.
DemoPathAnd(audio_path, text, demo) == demo /\ (audio_path = None /\ text = None)

\* if demo_mode or (audio_path is None and text is None)
DemoPath(audio_path, text, demo) == demo \/ (audio_path = None /\ text = None)

\* Variant: noise of +-10.
NoiseWide(u) == Uniform(0 - 1000, 1000, u)

\* np.random.uniform(-5, 5)
Noise(u) == Uniform(0 - 500, 500, u)

\* probability += np.random.uniform(-5, 5), a double addition.  The largest
\* noise is -5 + 10 * (1 - 2^-53) = 5 - 2^-49, and base + (5 - 2^-49) is
\* nearer to base + 5 than to the double below it for each base of 15 to
\* 85 (a tie, to even, for 15): the sum is base + 5 exactly.
AddNoise(base, u) == IF u = TopDraw THEN base + 500 ELSE base + Noise(u)

\* The base probability and the generator the branch leaves behind.
BaseProbability(salt, audio_path, text, demo, g) ==
    IF DemoPath(audio_path, text, demo)
    THEN [p |-> AddNoise(Choice(Draw(g, 0)), Draw(g, 1)), g |-> Advance(g, 2)]
    ELSE LET s == Seed(g, SeedOf(salt, audio_path, text))
         IN  [p |-> Uniform(1000, 9500, Draw(s, 0)), g |-> Advance(s, 1)]

VeryLow ==
    [risk_level |-> "Very Low Risk", risk_class |-> "risk-low",
     recommendation |-> "Continue routine cognitive screening",
     color |-> "#36B37E", icon |-> "check"]
Low ==
    [risk_level |-> "Low Risk", risk_class |-> "risk-low",
     recommendation |-> "Annual cognitive screening recommended",
     color |-> "#4C9AFF", icon |-> "check"]
Moderate ==
    [risk_level |-> "Moderate Risk", risk_class |-> "risk-moderate",
     recommendation |-> "Comprehensive neuropsychological evaluation within 6 months",
     color |-> "#FFAB00", icon |-> "warning"]
High ==
    [risk_level |-> "High Risk", risk_class |-> "risk-high",
     recommendation |-> "Urgent referral to neurologist or memory clinic",
     color |-> "#FF5630", icon |-> "siren"]
VeryHigh ==
    [risk_level |-> "Very High Risk", risk_class |-> "risk-high",
     recommendation |-> "Immediate clinical evaluation required",
     color |-> "#BF2600", icon |-> "red-circle"]

\* Variant: `<=` in place of `<`.
RiskTierInclusive(p) ==
    IF p <= 2000 THEN VeryLow
    ELSE IF p <= 4000 THEN Low
    ELSE IF p <= 6000 THEN Moderate
    ELSE IF p <= 8000 THEN High
    ELSE VeryHigh

\* The if/elif cascade over the clamped, unrounded probability.
RiskTier(p) ==
    IF p < 2000 THEN VeryLow
    ELSE IF p < 4000 THEN Low
    ELSE IF p < 6000 THEN Moderate
    ELSE IF p < 8000 THEN High
    ELSE VeryHigh

\* Variant: np.random.randint(0, 9999).
SuffixFromZero(u) == RandInt(0, 9999, u)

\* np.random.randint(1000, 9999)
Suffix(u) == RandInt(1000, 9999, u)

\* datetime.now().strftime("%Y-%m-%d %H:%M:%S"); the clock counts days, so
\* the time of day is left out.
Timestamp(day) ==
    LET t == DateOf(day)
    IN  Pad(Dec(t.y), 4) \o <<"-">> \o Pad(Dec(t.m), 2) \o <<"-">> \o Pad(Dec(t.d), 2)

\* f"MIN-{datetime.now().strftime('%Y%m%d')}-{np.random.randint(1000, 9999)}"
AnalysisId(day, u) == <<"M", "I", "N", "-">> \o Strftime(day) \o <<"-">> \o Dec(Suffix(u))

\* The returned dict for clamped probability p; g is the generator the
\* suffix is drawn from, day1 and day2 the two readings of the clock.
Report(p, g, day1, day2) ==
    LET tier == RiskTier(p)
    IN  [probability |-> Round1(p),
         risk_level |-> tier.risk_level,
         risk_class |-> tier.risk_class,
         recommendation |-> tier.recommendation,
         color |-> tier.color,
         icon |-> tier.icon,
         timestamp |-> Timestamp(day1),
         analysis_id |-> AnalysisId(day2, Draw(g, 0))]

\* What generate_analysis returns and leaves behind once `probability` is
\* clamped to p: the dict, the generator after the suffix draw, and p.
Returned(p, g, day1, day2) ==
    [results |-> Report(p, g, day1, day2), rng |-> Advance(g, 1), probability |-> p]

\* probability = max(5, min(95, probability)), then the rest of the body.
Clamped(base, day1, day2) == Returned(Clamp(base.p), base.g, day1, day2)

\* generate_analysis(audio_path, text, demo_mode) called with the shared
\* generator in state g: the dict it returns, the state it leaves the
\* generator in, and its local `probability` after the clamp.
GenerateAnalysis(salt, audio_path, text, demo, g, day1, day2) ==
    Clamped(BaseProbability(salt, audio_path, text, demo, g), day1, day2)

\* ----------------------------------------------------------- the page script
\* max(0.1, min(0.99, (100 - probability) / 100 + uniform(-0.2, 0.2))),
\* shown as int(value * 100); computed in thousandths.
BiomarkerValue(reported, u) ==
    Max(100, Min(990, (1000 - reported) + Uniform(0 - 200, 200, u))) \div 10

\* The six metrics of the biomarker loop, one draw each.
Biomarkers(results, g) ==
    [idx \in 1..6 |-> BiomarkerValue(results.probability, Draw(g, idx - 1))]

\* if st.session_state.analysis_results: the banner shows its risk_level
Banner(results) == IF results # NoReport THEN results.risk_level ELSE ""

\* Variant: only analyze_audio is tested.
ClickedVoiceOnly(button) == button = "voice"

\* if analyze_audio or analyze_text
Clicked(button) == button # "none"

\* audio_file.name if audio_file else None
AudioPath(file) == file

\* research_text if research_text else None
TextArg(content) == IF content = <<>> THEN None ELSE content

\* The (audio_path, text) pairs the page can pass to generate_analysis.
CallInputs == AudioFiles \X {None, TextHi}

\* History: the probability and the id suffix (the id after "MIN-YYYYMMDD-")
\* of the first report of each seeded input, and whether the input was
\* analysed again since.
Remember(seen, audio_path, text, demo, results) ==
    IF DemoPath(audio_path, text, demo) THEN seen
    ELSE LET k == <<audio_path, text>>
         IN  IF seen[k] = NoReport
             THEN [seen EXCEPT ![k] =
                      [probability |-> results.probability,
                       suffix |-> SubSeq(results.analysis_id, 14,
                                         Len(results.analysis_id)),
                       again |-> FALSE]]
             ELSE [seen EXCEPT ![k] = [@ EXCEPT !.again = TRUE]]

\* One run of the script, top to bottom, with the sidebar holding file,
\* content and demo and `button` the button whose click started it; day1
\* and day2 are the clock at the two datetime.now() calls.
RunPage(button, file, content, demo, day1, day2) ==
    /\ today <= day1 /\ day1 <= day2 /\ day2 <= MaxDay
    /\ audio_file' = file
    /\ research_text' = content
    /\ demo_mode' = demo
    /\ analyze' = button
    /\ today' = day2
    /\ IF Clicked(button)
       THEN \E call \in {GenerateAnalysis(hashSalt, AudioPath(file), TextArg(content),
                                            demo, rng, day1, day2)} :
                \* bound of the model: draws taken from one stream
                /\ call.rng.pos + 6 <= MaxPos
                /\ analysis_results' = call.results
                /\ probability' = call.probability
                /\ biomarkers' = Biomarkers(call.results, call.rng)
                /\ rng' = Advance(call.rng, 6)
                /\ firstSeen' = Remember(firstSeen, AudioPath(file), TextArg(content),
                                         demo, call.results)
       ELSE /\ biomarkers' = <<>>
            /\ UNCHANGED <<analysis_results, probability, rng, firstSeen>>
    /\ banner' = Banner(analysis_results')
    /\ UNCHANGED hashSalt

\* A run started by a sidebar change: no button is clicked, and the clock
\* is not read.
Rerun(file, content, demo) == RunPage("none", file, content, demo, today, today)

\* A run started by a click on "Analyze Voice".
AnalyzeVoice(day1, day2) ==
    RunPage("voice", audio_file, research_text, demo_mode, day1, day2)

\* A run started by a click on "Analyze Text".
AnalyzeText(day1, day2) ==
    RunPage("text", audio_file, research_text, demo_mode, day1, day2)

Days == 0..MaxDay

\* Unit draws around every threshold of Choice, Noise and Suffix.
EdgeDraws ==
    {0, DrawRes - 1, TopDraw}
        \cup {(k * DrawRes) \div 10 - 1 : k \in {3, 7, 9}}
        \cup {(k * DrawRes) \div 10 : k \in {3, 7, 9}}

\* The streams a generator initialised from OS entropy starts on in the
\* page specification.
PageStreams ==
    {OsStream(c, n, r) : c \in {0, DrawRes - 1}, n \in {0, DrawRes - 4},
                         r \in {0, TopDraw}}

\* The first run of the script with the widgets' defaults: no file, empty
\* text, demo mode ticked, no button clicked, analysis_results set to None.
Init ==
    /\ audio_file = None
    /\ research_text = <<>>
    /\ demo_mode = TRUE
    /\ analyze = "none"
    /\ analysis_results = NoReport
    /\ banner = ""
    /\ biomarkers = <<>>
    /\ rng \in {[stream |-> st, pos |-> 0] : st \in PageStreams}
    /\ today = 0
    /\ hashSalt \in 0..MaxSalt
    /\ probability = Unset
    /\ firstSeen = [k \in CallInputs |-> NoReport]

Next ==
    \/ \E file \in AudioFiles, content \in Texts, demo \in BOOLEAN :
          Rerun(file, content, demo)
    \/ \E day1 \in Days, day2 \in Days : AnalyzeVoice(day1, day2)
    \/ \E day1 \in Days, day2 \in Days : AnalyzeText(day1, day2)

Spec == Init /\ [][Next]_vars

\* ------------------------------------------- one call, over all of its inputs
\* A single call of generate_analysis from any sidebar content: on the demo
\* path over every noise draw and every threshold of the base choice, on the
\* seeded path over the seeds of MaxScoreSalt hash keys.
InitScore ==
    /\ audio_file \in AudioFiles
    /\ research_text \in Texts
    /\ demo_mode \in BOOLEAN
    /\ analyze = "none"
    /\ analysis_results = NoReport
    /\ banner = ""
    /\ biomarkers = <<>>
    /\ today = 0
    /\ probability = Unset
    /\ firstSeen = [k \in CallInputs |-> NoReport]
    /\ \/ /\ hashSalt = 0
          /\ rng \in {[stream |-> OsStream(c, n, 0), pos |-> 0] :
                         c \in EdgeDraws, n \in 0..TopDraw}
       \/ /\ hashSalt \in 0..MaxScoreSalt
          /\ rng = [stream |-> OsStream(0, 0, TopDraw), pos |-> 0]

ScoreCall ==
    /\ analysis_results = NoReport
    /\ AnalyzeVoice(today, today)

SpecScore == InitScore /\ [][ScoreCall]_vars

\* --------------------------------- the tier cascade, over every probability
\* generate_analysis from its clamp on, entered with any value the clamp
\* can leave in `probability`.
InitTier ==
    /\ audio_file = None
    /\ research_text = <<>>
    /\ demo_mode = TRUE
    /\ analyze = "none"
    /\ analysis_results = NoReport
    /\ banner = ""
    /\ biomarkers = <<>>
    /\ rng = [stream |-> OsStream(0, 0, 0), pos |-> 2]
    /\ today = 0
    /\ hashSalt = 0
    /\ probability \in 500..9500
    /\ firstSeen = [k \in CallInputs |-> NoReport]

Categorize ==
    /\ analysis_results = NoReport
    /\ \E ret \in {Returned(probability, rng, today, today)} :
          /\ analysis_results' = ret.results
          /\ rng' = ret.rng
    /\ UNCHANGED <<audio_file, research_text, demo_mode, analyze, banner, biomarkers,
                   today, hashSalt, probability, firstSeen>>

SpecTier == InitTier /\ [][Categorize]_vars

\* ================================================================== claims
\* The sidebar content of the last run, as generate_analysis received it.
CallKey == <<AudioPath(audio_file), TextArg(research_text)>>

\* The last run called generate_analysis on its demo branch: demo_mode was
\* true, or neither a file nor a text was supplied.
DemoCall ==
    /\ analyze # "none"
    /\ demo_mode \/ (audio_file = None /\ research_text = <<>>)

\* The last run called generate_analysis on its seeded branch.
SeededCall ==
    /\ analyze # "none"
    /\ ~demo_mode
    /\ ~(audio_file = None /\ research_text = <<>>)

\* The tier of the threshold table for a one-decimal probability (tenths).
TableTier(reported) ==
    IF reported < 200 THEN "Very Low Risk"
    ELSE IF reported < 400 THEN "Low Risk"
    ELSE IF reported < 600 THEN "Moderate Risk"
    ELSE IF reported < 800 THEN "High Risk"
    ELSE "Very High Risk"

\* The recommendation, color and icon the code's table gives a tier name.
TableFields(level) ==
    CASE level = "Very Low Risk" -> VeryLow
      [] level = "Low Risk" -> Low
      [] level = "Moderate Risk" -> Moderate
      [] level = "High Risk" -> High
      [] level = "Very High Risk" -> VeryHigh

IsDigit(c) == c \in {"0", "1", "2", "3", "4", "5", "6", "7", "8", "9"}

DigitValue(c) == CHOOSE d \in 0..9 : DigitChar(d) = c

RECURSIVE Num(_)
\* The number a string of decimal digits reads as.
Num(s) == IF s = <<>> THEN 0 ELSE Num(SubSeq(s, 1, Len(s) - 1)) * 10 + DigitValue(s[Len(s)])

AllDigits(s) == \A i \in 1..Len(s) : IsDigit(s[i])

\* id reads MIN-YYYYMMDD-#### with YYYYMMDD the date of `day` and a
\* four-digit suffix in 1000..9999.
IdWellFormed(id, day) ==
    /\ Len(id) = 17
    /\ SubSeq(id, 1, 4) = <<"M", "I", "N", "-">>
    /\ AllDigits(SubSeq(id, 5, 12))
    /\ Num(SubSeq(id, 5, 8)) = DateOf(day).y
    /\ Num(SubSeq(id, 9, 10)) = DateOf(day).m
    /\ Num(SubSeq(id, 11, 12)) = DateOf(day).d
    /\ id[13] = "-"
    /\ AllDigits(SubSeq(id, 14, 17))
    /\ Num(SubSeq(id, 14, 17)) >= 1000
    /\ Num(SubSeq(id, 14, 17)) <= 9999

\* C1: the probability field of every returned report lies in [5.0, 95.0],
\* on the demo path and on the seeded path, whatever was drawn.
C1_ProbabilityInRange ==
    analysis_results # NoReport =>
        /\ 50 <= analysis_results.probability
        /\ analysis_results.probability <= 950

\* C1 witness: a seeded call returned a probability within one point of
\* the upper bound.
C1_Witness ==
    /\ SeededCall
    /\ analysis_results # NoReport
    /\ analysis_results.probability > 940

\* C2: the cascade gives every clamped probability exactly one tier, with
\* inclusive lower bounds at 20, 40, 60 and 80.
C2_TierPartition ==
    analysis_results # NoReport =>
        LET p == probability
            level == analysis_results.risk_level
        IN  /\ p \in 500..9500
            /\ level \in {"Very Low Risk", "Low Risk", "Moderate Risk", "High Risk",
                          "Very High Risk"}
            /\ (level = "Very Low Risk") <=> (p < 2000)
            /\ (level = "Low Risk") <=> (2000 <= p /\ p < 4000)
            /\ (level = "Moderate Risk") <=> (4000 <= p /\ p < 6000)
            /\ (level = "High Risk") <=> (6000 <= p /\ p < 8000)
            /\ (level = "Very High Risk") <=> (p >= 8000)
            /\ (p = 1990 => level = "Very Low Risk")
            /\ (p = 2000 => level = "Low Risk")
            /\ (p = 3990 => level = "Low Risk")
            /\ (p = 4000 => level = "Moderate Risk")
            /\ (p = 7990 => level = "High Risk")
            /\ (p = 8000 => level = "Very High Risk")

\* C2 witness: the cascade ran on a boundary value, 20.0.
C2_Witness ==
    /\ analysis_results # NoReport
    /\ probability = 2000
    /\ analysis_results.risk_level = "Low Risk"

\* C3: risk_level, recommendation, color and icon of a report are those of
\* the tier its own (one-decimal) probability field falls in.
C3_TierOfReported ==
    analysis_results # NoReport =>
        LET fields == TableFields(TableTier(analysis_results.probability))
        IN  /\ analysis_results.risk_level = fields.risk_level
            /\ analysis_results.recommendation = fields.recommendation
            /\ analysis_results.color = fields.color
            /\ analysis_results.icon = fields.icon

\* C4: on the demo path the probability is a base of {15, 35, 65, 85} plus
\* noise within 5 of it, so it lies in [10,20], [30,40], [60,70] or [80,90],
\* and every other audio_path and text that takes the demo path would have
\* produced the same probability from the same generator.
C4_DemoValues ==
    [][(analysis_results' # analysis_results /\ DemoCall')
        => /\ analysis_results'.probability \in
                  (100..200) \cup (300..400) \cup (600..700) \cup (800..900)
           /\ \E b \in {1500, 3500, 6500, 8500} :
                  /\ b - 500 <= probability'
                  /\ probability' <= b + 500
           /\ \A k \in CallInputs :
                  (demo_mode' \/ (k[1] = None /\ k[2] = None))
                  => GenerateAnalysis(hashSalt, k[1], k[2], demo_mode', rng,
                                      today, today').results.probability
                         = analysis_results'.probability]_vars

\* C4 witness: a demo-mode call that was given both a file and a text
\* returned the top of the first interval.
C4_Witness ==
    /\ DemoCall
    /\ audio_file = FileA
    /\ research_text = TextHi
    /\ analysis_results # NoReport
    /\ analysis_results.probability = 200

C6_AnalysisId ==
    [][analyze' # "none" => IdWellFormed(analysis_results'.analysis_id, today')]_vars

\* C6 witness: a report made on the second day, with a suffix from the top
\* of the range.
C6_Witness ==
    /\ analysis_results # NoReport
    /\ analyze # "none"
    /\ today = 1
    /\ SubSeq(analysis_results.analysis_id, 5, 12) = <<"2", "0", "2", "6", "1", "1", "0", "1">>
    /\ Num(SubSeq(analysis_results.analysis_id, 14, 17)) >= 9900

\* C7: a call only consumes draws of the shared generator: the generator
\* stays on its stream and never moves back.
C7_GeneratorOnlyAdvances ==
    [][rng'.stream = rng.stream /\ rng'.pos >= rng.pos]_vars

\* C8: analysis_results is None until a run with a click, a run with a
\* click stores the report generated in that run, a run without a click
\* leaves it alone, and the banner of every run shows the stored report's
\* risk_level exactly when one is stored.
C8_LastReport ==
    /\ analysis_results = NoReport
    /\ [][/\ analyze' = "none" => analysis_results' = analysis_results
          /\ analyze' # "none" =>
                 \E day \in Days :
                     analysis_results' =
                         GenerateAnalysis(hashSalt, AudioPath(audio_file'),
                                          TextArg(research_text'), demo_mode', rng,
                                          day, today').results
          /\ (analysis_results' = NoReport) <=> (banner' = "")
          /\ analysis_results' # NoReport => banner' = analysis_results'.risk_level]_vars

\* C8 witness: a run without a click still holds and shows the report of
\* an earlier clicked run.
C8_Witness ==
    /\ analyze = "none"
    /\ analysis_results # NoReport
    /\ banner = analysis_results.risk_level
    /\ biomarkers = <<>>

\* C9 as stated: a report of the demo path is never Moderate Risk.
C9_DemoNeverModerate ==
    (DemoCall /\ analysis_results # NoReport) =>
        /\ analysis_results.risk_level # "Moderate Risk"
        /\ analysis_results.risk_level \in
               {"Very Low Risk", "Low Risk", "High Risk", "Very High Risk"}

\* C9 as amended: a report of the demo path is Moderate Risk only when its
\* probability is exactly 40.0, the sum of base 35 and the largest noise;
\* below 40.0 and from 60.0 on it is one of the four other tiers.
C9_DemoModerateOnlyAtForty ==
    (DemoCall /\ analysis_results # NoReport) =>
        \/ analysis_results.risk_level \in
               {"Very Low Risk", "Low Risk", "High Risk", "Very High Risk"}
        \/ /\ analysis_results.risk_level = "Moderate Risk"
           /\ probability = 4000
           /\ analysis_results.probability = 400

\* C9 witness: a demo call one hundredth short of the exception, 35 + 4.99,
\* is Low Risk.
C9_Witness ==
    /\ DemoCall
    /\ analysis_results # NoReport
    /\ probability = 3999
    /\ analysis_results.risk_level = "Low Risk"

====
